---- MODULE Spec2Model ----
(***************************************************************************)
(* The commit_batch example server of nomt: a single-threaded process that *)
(* serves a NOMT store over a unix socket, one connection at a time, with  *)
(* a length-prefixed request protocol (examples/commit_batch/src/main.rs). *)
(*                                                                         *)
(* The store itself (the nomt crate: root, begin_session, Session::read,   *)
(* Session::warm_up, commit) is not part of the example's source; it is    *)
(* modelled from its interface as the specification describes it.          *)
(*                                                                         *)
(* Spec is the server with a frame taken as a unit; FrameSpec is the frame *)
(* reader of its connection loop with the stream and the buffer as bytes.  *)
(***************************************************************************)
EXTENDS Integers, Sequences, FiniteSets, TLC

\* Longest item list a client puts into one Update request.
MaxItems == 2
\* Number of Sessions the clients let the server begin (one per Update, plus
\* the bootstrap's): a client sends no further Update once it is reached.
MaxSessions == 3

(***************************************************************************)
(* Data                                                                    *)
(***************************************************************************)

\* Option<T>: None, or Some(x).
None == <<>>
Some(x) == <<x>>

\* Client keys, as byte strings: "a" and "b".
Keys == {<<97>>, <<98>>}
\* Client values, as byte strings: "", "1" and "2".
Values == {<<>>, <<49>>, <<50>>}

\* sha2::Sha256::digest(key), cut to the two leading bytes of the digest:
\* sha256("a") = ca97..., sha256("b") = 3e23..., sha256("c") = 2e7d...,
\* sha256("") = e3b0...
Sha256(key) ==
    CASE key = <<97>> -> <<202, 151>>
      [] key = <<98>> -> <<62, 35>>
      [] key = <<99>> -> <<46, 125>>
      [] OTHER -> <<227, 176>>

Paths == {Sha256(k) : k \in Keys}

\* Ord on [u8; 32]: lexicographic on the raw bytes.
PathLess(p, q) ==
    \E i \in 1..Len(p) :
        /\ \A j \in 1..(i - 1) : p[j] = q[j]
        /\ p[i] < q[i]

\* What the store holds under a Path: None, or Some(value).
OptValues == {None} \cup {Some(v) : v \in Values}

\* The item lists of an Update request: up to MaxItems (key, value) pairs.
Items == [key : Keys, value : Values]
ItemLists == UNION {[1..n -> Items] : n \in 0..MaxItems}

\* The request a payload decodes to. "Malformed" stands for payload bytes
\* that Request::decode rejects, "Unset" for an envelope whose oneof field
\* is absent (request.request == None).
NoRequest == [kind |-> "NoRequest"]
Malformed == [kind |-> "Malformed"]
Unset == [kind |-> "Unset"]
RootRequest == [kind |-> "Root"]
GetRequest(key) == [kind |-> "Get", key |-> key]
PrefetchRequest(key) == [kind |-> "Prefetch", key |-> key]
UpdateRequest(items) == [kind |-> "Update", items |-> items]
CloseRequest == [kind |-> "Close"]

\* The value of a Session variable whose Session was moved out of it.
Moved == 0

VARIABLES
    pc,            \* where the process is: "accept" (main's loop), "read_length",
                   \* "read_payload", "write" (handle_client's loop), "panicked"
    peer,          \* the client's end of the current stream: "open" or "closed"
    session,       \* main's `session`
    next_session,  \* handle_client's `next_session`
    sessions,      \* nomt: the Sessions begun so far, each "live" or "committed"
    store,         \* nomt: the committed value under each Path
    request,       \* the loop body's `request`, decoded from the payload
    response,      \* the loop body's `response`
    carried,       \* for each key, the values that the Update answered just before
                   \* on this connection carried for it; kept, once the next
                   \* request is dispatched, while that request is a Get
    roots,         \* the roots answered to Root requests since the last commit
    calls,         \* the nomt calls issued by the server's latest step
    wrote,         \* the Response written to the stream by the server's latest step
    fault,         \* the failure met by the server's latest step: "none", or the
                   \* operation that failed
    waiting,       \* whether a client has connected to the listener and is not
                   \* accepted yet
    streams,       \* the accepted streams that are not dropped yet
    unanswered,    \* the frames read on this stream whose Response is not written
    reader,        \* the frame reader's position in the loop of handle_client
    inbound,       \* the bytes the client has sent that are not read yet
    eof,           \* whether the client has closed its end of the stream
    buffer,        \* `buffer` of handle_client
    message_length,\* `message_length` of the frame being read
    payload,       \* the bytes handed to Request::decode, if any
    sent           \* the payloads of the frames sent in full and not dispatched yet

\* The variables of the frame reader (FrameSpec). Spec takes a frame as a
\* unit and leaves them alone; FrameSpec spells out the bytes and takes the
\* dispatch of a request as a unit.
frame == <<reader, inbound, eof, buffer, message_length, payload, sent>>

\* The variables of the server as Spec describes it.
served == <<pc, peer, session, next_session, sessions, store, request, response,
            carried, roots, calls, wrote, fault, waiting, streams, unanswered>>

vars == <<pc, peer, session, next_session, sessions, store, request, response,
          carried, roots, calls, wrote, fault, waiting, streams, unanswered,
          reader, inbound, eof, buffer, message_length, payload, sent>>

(***************************************************************************)
(* The store (nomt), from its interface                                    *)
(***************************************************************************)

\* Nomt::root: a commitment to the committed state; two states have the same
\* root exactly when they hold the same values under the same Paths.
Root(s) == {<<p, s[p][1]>> : p \in {q \in Paths : s[q] # None}}

\* Session::read: the committed value under the Path.
SessionRead(s, path) == s[path]

\* The operations a batch carries for one Path.
OpsFor(batch, path) ==
    {batch[i].write : i \in {j \in DOMAIN batch : batch[j].path = path}}

\* Nomt::commit: every Path of the batch takes the value of its operation and
\* every other Path keeps its value. A batch with several operations for one
\* Path breaks commit's precondition: which of them takes effect is not
\* defined, so any of them may.
CommitOutcomes(s, batch) ==
    LET may == [p \in Paths |->
                   IF OpsFor(batch, p) = {} THEN {s[p]} ELSE OpsFor(batch, p)]
    IN {t \in [Paths -> UNION {may[p] : p \in Paths}] :
           \A p \in Paths : t[p] \in may[p]}

\* Nomt::begin_session: a new live Session.
BeginSession(ss) == Append(ss, "live")

\* The Session is consumed by commit.
Consume(ss, id) == [ss EXCEPT ![id] = "committed"]

\* A record of one nomt call: the Session it is issued against (Moved for a
\* call on the Nomt handle itself), whether that Session is live when the call
\* is issued (the Session begin_session yields is), and its argument.
Call(op, id, path, batch) ==
    [op |-> op, session |-> id,
     live |-> (op = "begin_session" \/ (id \in DOMAIN sessions /\ sessions[id] = "live")),
     path |-> path, batch |-> batch]

(***************************************************************************)
(* handle_client: the Update arm's batch                                   *)
(***************************************************************************)

BatchItem_WritesEmpty(item) ==
    [path |-> Sha256(item.key), write |-> Some(item.value)]

\* One item of an Update: (key_path, KeyReadWrite::Write(write_val)).
BatchItem(item) ==
    [path |-> Sha256(item.key),
     write |-> IF Len(item.value) = 0 THEN None ELSE Some(item.value)]

Collect(items) == [i \in DOMAIN items |-> BatchItem(items[i])]

\* Insert e behind every element whose Path is not greater than e's.
RECURSIVE InsertSorted(_, _)
InsertSorted(sorted, e) ==
    IF sorted = <<>> THEN <<e>>
    ELSE IF PathLess(e.path, sorted[Len(sorted)].path)
         THEN Append(InsertSorted(SubSeq(sorted, 1, Len(sorted) - 1), e),
                     sorted[Len(sorted)])
         ELSE Append(sorted, e)

\* actual_access.sort_by_key(|(k, _)| *k): a stable sort by Path.
RECURSIVE SortByKey(_)
SortByKey(batch) ==
    IF batch = <<>> THEN <<>>
    ELSE InsertSorted(SortByKey(SubSeq(batch, 1, Len(batch) - 1)),
                      batch[Len(batch)])

RECURSIVE DropRepeated(_)
DropRepeated(batch) ==
    IF Len(batch) <= 1 THEN batch
    ELSE LET front == DropRepeated(SubSeq(batch, 1, Len(batch) - 1))
             last  == batch[Len(batch)]
         IN IF front[Len(front)].path = last.path THEN front ELSE Append(front, last)

ActualAccess_Deduplicated(items) == DropRepeated(SortByKey(Collect(items)))

ActualAccess_Unsorted(items) == Collect(items)

\* The batch of an Update: collected, then sorted.
ActualAccess(items) == SortByKey(Collect(items))

\* The values, in item order, that the items carry for `key`.
RECURSIVE ValuesFor(_, _)
ValuesFor(items, key) ==
    IF items = <<>> THEN <<>>
    ELSE LET rest == ValuesFor(SubSeq(items, 1, Len(items) - 1), key)
             last == items[Len(items)]
         IN IF last.key = key THEN Append(rest, last.value) ELSE rest

\* What `carried` holds once the response to `req` is written.
CarriedBy(req) ==
    [k \in Keys |-> IF req.kind = "Update" THEN ValuesFor(req.items, k) ELSE <<>>]

\* What `carried` keeps once `req` is dispatched.
CarriedFor(req) == IF req.kind = "Get" THEN carried ELSE [k \in Keys |-> <<>>]

NothingCarried == [k \in Keys |-> <<>>]

(***************************************************************************)
(* main                                                                    *)
(***************************************************************************)

\* Nomt::open on the database at `path` (which may hold data of an earlier
\* run), then the first begin_session.
Init ==
    /\ pc = "accept"
    /\ peer = "closed"
    /\ store \in [Paths -> OptValues]
    /\ sessions = BeginSession(<<>>)
    /\ session = 1
    /\ next_session = Moved
    /\ request = NoRequest
    /\ response = None
    /\ carried = NothingCarried
    /\ roots = {}
    /\ calls = <<Call("begin_session", 1, None, <<>>)>>
    /\ wrote = None
    /\ fault = "none"
    /\ waiting = FALSE
    /\ streams = 0
    /\ unanswered = 0
    /\ reader = "idle"
    /\ inbound = <<>>
    /\ eof = FALSE
    /\ buffer = <<>>
    /\ message_length = 0
    /\ payload = None
    /\ sent = <<>>

\* A client connects to the socket.
ClientConnect ==
    /\ pc # "panicked"
    /\ ~waiting
    /\ waiting' = TRUE
    /\ UNCHANGED <<pc, peer, session, next_session, sessions, store, request,
                   response, carried, roots, calls, wrote, fault, streams,
                   unanswered>>
    /\ UNCHANGED frame

Accept_WhileServing ==
    /\ pc \in {"accept", "read_length"}
    /\ waiting
    /\ waiting' \in BOOLEAN
    /\ streams' = streams + 1
    /\ unanswered' = 0
    /\ pc' = "read_length"
    /\ peer' = "open"
    /\ next_session' = IF pc = "accept" THEN session ELSE next_session
    /\ session' = Moved
    /\ calls' = <<>>
    /\ wrote' = None
    /\ fault' = "none"
    /\ UNCHANGED <<sessions, store, request, response, carried, roots>>
    /\ UNCHANGED frame

\* listener.incoming() yields Ok(stream): handle_client(stream, &nomt, session).
\* Further clients may be waiting behind the accepted one.
Accept ==
    /\ pc = "accept"
    /\ waiting
    /\ waiting' \in BOOLEAN
    /\ streams' = streams + 1
    /\ unanswered' = 0
    /\ pc' = "read_length"
    /\ peer' = "open"
    /\ next_session' = session
    /\ session' = Moved
    /\ calls' = <<>>
    /\ wrote' = None
    /\ fault' = "none"
    /\ UNCHANGED <<sessions, store, request, response, carried, roots>>
    /\ UNCHANGED frame

AcceptFailed_Exits ==
    /\ pc = "accept"
    /\ pc' = "panicked"
    /\ calls' = <<>>
    /\ wrote' = None
    /\ fault' = "accept"
    /\ UNCHANGED <<peer, session, next_session, sessions, store, request,
                   response, carried, roots, waiting, streams, unanswered>>
    /\ UNCHANGED frame

\* listener.incoming() yields Err(err): the error is printed.
AcceptFailed ==
    /\ pc = "accept"
    /\ calls' = <<>>
    /\ wrote' = None
    /\ fault' = "accept"
    /\ UNCHANGED <<pc, peer, session, next_session, sessions, store, request,
                   response, carried, roots, waiting, streams, unanswered>>
    /\ UNCHANGED frame

(***************************************************************************)
(* handle_client                                                           *)
(***************************************************************************)

\* The client closes its end of the stream.
ClientClose ==
    /\ pc \in {"read_length", "read_payload", "write"}
    /\ peer = "open"
    /\ peer' = "closed"
    /\ UNCHANGED <<pc, session, next_session, sessions, store, request,
                   response, carried, roots, calls, wrote, fault, waiting,
                   streams, unanswered>>
    /\ UNCHANGED frame

\* `break`: the loop ends, `next_session` is returned (the stream is dropped)
\* and main assigns it to `session`.
Return ==
    /\ pc' = "accept"
    /\ streams' = streams - 1
    /\ unanswered' = 0
    /\ UNCHANGED waiting
    /\ session' = next_session
    /\ next_session' = Moved
    /\ request' = NoRequest
    /\ response' = None
    /\ carried' = NothingCarried
    /\ calls' = <<>>
    /\ wrote' = None
    /\ UNCHANGED <<peer, sessions, store, roots>>
    /\ UNCHANGED frame

\* stream.read_exact(&mut length_buffer) succeeds.
ReadLength ==
    /\ pc = "read_length"
    /\ peer = "open"
    /\ pc' = "read_payload"
    /\ calls' = <<>>
    /\ wrote' = None
    /\ fault' = "none"
    /\ UNCHANGED <<peer, session, next_session, sessions, store, request,
                   response, carried, roots, waiting, streams, unanswered>>
    /\ UNCHANGED frame

\* stream.read_exact(&mut length_buffer).is_err()
ReadLengthFailed ==
    /\ pc = "read_length"
    /\ peer = "closed"
    /\ fault' = "read_length"
    /\ Return

ReadPayloadFailed_Continues ==
    /\ pc = "read_payload"
    /\ peer = "closed"
    /\ fault' = "read_payload"
    /\ pc' = "read_length"
    /\ calls' = <<>>
    /\ wrote' = None
    /\ UNCHANGED <<peer, session, next_session, sessions, store, request,
                   response, carried, roots, waiting, streams, unanswered>>
    /\ UNCHANGED frame

\* stream.read_exact(&mut buffer[..message_length]).is_err()
ReadPayloadFailed ==
    /\ pc = "read_payload"
    /\ peer = "closed"
    /\ fault' = "read_payload"
    /\ Return

\* The payload is read in full and decodes to `req`.
Decoded(req) ==
    /\ pc = "read_payload"
    /\ peer = "open"
    /\ request' = req
    /\ carried' = CarriedFor(req)
    /\ wrote' = None
    /\ unanswered' = unanswered + 1
    /\ UNCHANGED <<peer, session, waiting, streams>>
    /\ UNCHANGED frame

\* A panic (an unwrap of Err or None) in `op`: the process ends.
Panic(op) ==
    /\ pc' = "panicked"
    /\ fault' = op
    /\ response' = None

\* The match arm yields `resp`.
Answer(resp) ==
    /\ pc' = "write"
    /\ fault' = "none"
    /\ response' = Some(resp)

Success(variant) == [err_code |-> 0, response |-> Some(variant)]
Failure(code) == [err_code |-> code, response |-> None]

DecodeFailed_Breaks ==
    /\ pc = "read_payload"
    /\ peer = "open"
    /\ fault' = "decode"
    /\ Return

\* Request::decode(..).unwrap() on bytes that do not decode.
DecodeFailed ==
    /\ Decoded(Malformed)
    /\ Panic("decode")
    /\ calls' = <<>>
    /\ UNCHANGED <<next_session, sessions, store, roots>>

\* request.request.unwrap() on an envelope without a variant.
RequestUnset ==
    /\ Decoded(Unset)
    /\ Panic("request")
    /\ calls' = <<>>
    /\ UNCHANGED <<next_session, sessions, store, roots>>

HandleRoot_EmptyIsError ==
    /\ Decoded(RootRequest)
    /\ calls' = <<Call("root", Moved, None, <<>>)>>
    /\ Answer(IF Root(store) = {} THEN Failure(1)
              ELSE Success([kind |-> "Root", root |-> Root(store)]))
    /\ UNCHANGED <<next_session, sessions, store, roots>>

\* Request::Root(_)
HandleRoot ==
    /\ Decoded(RootRequest)
    /\ calls' = <<Call("root", Moved, None, <<>>)>>
    /\ Answer(Success([kind |-> "Root", root |-> Root(store)]))
    /\ UNCHANGED <<next_session, sessions, store, roots>>

HandleGet_NotFoundAsEmpty(key) ==
    LET key_path == Sha256(key)
        value == SessionRead(store, key_path)
    IN
    /\ Decoded(GetRequest(key))
    /\ calls' = <<Call("read", next_session, Some(key_path), <<>>)>>
    /\ \/ Answer(Success([kind |-> "Get",
                          value |-> IF value # None THEN value[1] ELSE <<>>]))
       \/ Panic("read")
    /\ UNCHANGED <<next_session, sessions, store, roots>>

\* Request::Get(req)
HandleGet(key) ==
    LET key_path == Sha256(key)
        value == SessionRead(store, key_path)
    IN
    /\ Decoded(GetRequest(key))
    /\ calls' = <<Call("read", next_session, Some(key_path), <<>>)>>
    /\ \/ \* next_session.read(key_path) is Ok(value)
          Answer(IF value # None
                 THEN Success([kind |-> "Get", value |-> value[1]])
                 ELSE Failure(1))
       \/ \* next_session.read(key_path) is Err(_)
          Panic("read")
    /\ UNCHANGED <<next_session, sessions, store, roots>>

HandlePrefetch_AnswersClose(key) ==
    /\ Decoded(PrefetchRequest(key))
    /\ calls' = <<Call("warm_up", next_session, Some(Sha256(key)), <<>>)>>
    /\ Answer(Success([kind |-> "Close"]))
    /\ UNCHANGED <<next_session, sessions, store, roots>>

HandlePrefetch_ReadsFirst(key) ==
    /\ Decoded(PrefetchRequest(key))
    /\ calls' = <<Call("warm_up", next_session, Some(Sha256(key)), <<>>)>>
    /\ Answer(IF SessionRead(store, Sha256(key)) # None
              THEN Success([kind |-> "Prefetch"])
              ELSE Failure(1))
    /\ UNCHANGED <<next_session, sessions, store, roots>>

\* Request::Prefetch(req)
HandlePrefetch(key) ==
    LET key_path == Sha256(key) IN
    /\ Decoded(PrefetchRequest(key))
    /\ calls' = <<Call("warm_up", next_session, Some(key_path), <<>>)>>
    /\ Answer(Success([kind |-> "Prefetch"]))
    /\ UNCHANGED <<next_session, sessions, store, roots>>

\* The Update arm once nomt.commit(next_session, actual_access) is called:
\* with Ok(root) the store holds `committed`, `begun` are the Sessions and
\* `current` is assigned to next_session; with Err(_) the unwrap panics.
Committing(items, actual_access, committed, begun, current, begin) ==
    LET commit == Call("commit", next_session, None, actual_access) IN
    /\ Decoded(UpdateRequest(items))
    /\ \/ /\ store' \in committed
          /\ sessions' = begun
          /\ next_session' = current
          /\ calls' = <<commit>> \o begin
          /\ Answer(Success([kind |-> "Update", root |-> Root(store')]))
          /\ roots' = {}
       \/ /\ Panic("commit")
          /\ sessions' = Consume(sessions, next_session)
          /\ next_session' = Moved
          /\ calls' = <<commit>>
          /\ UNCHANGED <<store, roots>>

HandleUpdate_AnswersUncommitted(items) ==
    LET consumed == Consume(sessions, next_session) IN
    Committing(items, ActualAccess(items), {store}, BeginSession(consumed),
               Len(consumed) + 1,
               <<Call("begin_session", Len(consumed) + 1, None, <<>>)>>)

HandleUpdate_KeepsSession(items) ==
    Committing(items, ActualAccess(items),
               CommitOutcomes(store, ActualAccess(items)),
               Consume(sessions, next_session), next_session, <<>>)

HandleUpdate_BeginsLater(items) ==
    Committing(items, ActualAccess(items),
               CommitOutcomes(store, ActualAccess(items)),
               Consume(sessions, next_session), Moved, <<>>)

HandleUpdate_SkipsEmpty(items) ==
    LET actual_access == ActualAccess(items)
        consumed == Consume(sessions, next_session)
    IN
    IF items = <<>>
    THEN /\ Decoded(UpdateRequest(items))
         /\ calls' = <<>>
         /\ Answer(Success([kind |-> "Update", root |-> Root(store)]))
         /\ roots' = {}
         /\ UNCHANGED <<next_session, sessions, store>>
    ELSE Committing(items, actual_access, CommitOutcomes(store, actual_access),
                    BeginSession(consumed), Len(consumed) + 1,
                    <<Call("begin_session", Len(consumed) + 1, None, <<>>)>>)

\* Request::Update(req)
HandleUpdate(items) ==
    LET actual_access == ActualAccess(items)
        consumed == Consume(sessions, next_session)
    IN
    Committing(items, actual_access, CommitOutcomes(store, actual_access),
               BeginSession(consumed), Len(consumed) + 1,
               <<Call("begin_session", Len(consumed) + 1, None, <<>>)>>)

HandleClose_Unanswered ==
    /\ Decoded(CloseRequest)
    /\ calls' = <<>>
    /\ pc' = "read_length"
    /\ fault' = "none"
    /\ response' = None
    /\ UNCHANGED <<next_session, sessions, store, roots>>

HandleClose_Breaks ==
    /\ pc = "read_payload"
    /\ peer = "open"
    /\ request' = CloseRequest
    /\ carried' = NothingCarried
    /\ calls' = <<>>
    /\ wrote' = None
    /\ fault' = "none"
    /\ response' = None
    /\ pc' = "accept"
    /\ session' = next_session
    /\ next_session' = Moved
    /\ streams' = streams - 1
    /\ unanswered' = 0
    /\ UNCHANGED <<peer, sessions, store, roots, waiting>>
    /\ UNCHANGED frame

\* Request::Close(_)
HandleClose ==
    /\ Decoded(CloseRequest)
    /\ calls' = <<>>
    /\ Answer(Success([kind |-> "Close"]))
    /\ UNCHANGED <<next_session, sessions, store, roots>>

\* stream.write_all(&response_buffer) succeeds; the loop body ends.
WriteResponse ==
    /\ pc = "write"
    /\ peer = "open"
    /\ wrote' = response
    /\ carried' = CarriedBy(request)
    /\ roots' = IF request.kind = "Root" /\ response[1].response # None
                THEN roots \cup {response[1].response[1].root}
                ELSE roots
    /\ request' = NoRequest
    /\ response' = None
    /\ pc' = "read_length"
    /\ calls' = <<>>
    /\ fault' = "none"
    /\ unanswered' = unanswered - 1
    /\ UNCHANGED <<peer, session, next_session, sessions, store, waiting, streams>>
    /\ UNCHANGED frame

\* stream.write_all(&response_buffer).unwrap() on a stream the client closed.
WriteFailed ==
    /\ pc = "write"
    /\ peer = "closed"
    /\ pc' = "panicked"
    /\ fault' = "write"
    /\ calls' = <<>>
    /\ wrote' = None
    /\ UNCHANGED <<peer, session, next_session, sessions, store, request,
                   response, carried, roots, waiting, streams, unanswered>>
    /\ UNCHANGED frame

Next ==
    \/ ClientConnect
    \/ Accept
    \/ AcceptFailed
    \/ ClientClose
    \/ ReadLength
    \/ ReadLengthFailed
    \/ ReadPayloadFailed
    \/ DecodeFailed
    \/ RequestUnset
    \/ HandleRoot
    \/ \E key \in Keys : HandleGet(key)
    \/ \E key \in Keys : HandlePrefetch(key)
    \/ \E items \in ItemLists : Len(sessions) < MaxSessions /\ HandleUpdate(items)
    \/ HandleClose
    \/ WriteResponse
    \/ WriteFailed

Spec == Init /\ [][Next]_vars

(***************************************************************************)
(* The frame reader of handle_client (lines 16-34), byte by byte            *)
(*                                                                         *)
(* A byte string is kept as its runs: a sequence of [byte, count] with      *)
(* count > 0 and no two neighbours of the same byte, so that the 1 MiB      *)
(* buffer and frames longer than it keep their true sizes.                  *)
(***************************************************************************)

\* Longest payload among the short frames a client sends.
MaxShort == 1
\* By how many bytes the longest frame a client sends exceeds the new buffer.
MaxGrowth == 1
\* Number of frames a client sends in full ahead of their dispatch.
MaxPending == 1

\* vec![0; 1024*1024]
BufferLen == 1024 * 1024

\* The byte values the clients' payloads are made of.
ByteValues == {0, 10}

\* `n` bytes of value `b`.
Run(b, n) == IF n <= 0 THEN <<>> ELSE <<[byte |-> b, count |-> n]>>

\* The number of bytes.
RECURSIVE Size(_)
Size(bytes) == IF bytes = <<>> THEN 0 ELSE bytes[1].count + Size(Tail(bytes))

\* `a` followed by `b`.
Join(a, b) ==
    IF a = <<>> THEN b
    ELSE IF b = <<>> THEN a
    ELSE IF a[Len(a)].byte = b[1].byte
         THEN SubSeq(a, 1, Len(a) - 1)
                  \o Run(b[1].byte, a[Len(a)].count + b[1].count)
                  \o Tail(b)
         ELSE a \o b

\* bytes[..n]
RECURSIVE Take(_, _)
Take(bytes, n) ==
    IF n <= 0 \/ bytes = <<>> THEN <<>>
    ELSE IF bytes[1].count <= n
         THEN <<bytes[1]>> \o Take(Tail(bytes), n - bytes[1].count)
         ELSE Run(bytes[1].byte, n)

\* bytes[n..]
RECURSIVE Drop(_, _)
Drop(bytes, n) ==
    IF n <= 0 \/ bytes = <<>> THEN bytes
    ELSE IF bytes[1].count <= n
         THEN Drop(Tail(bytes), n - bytes[1].count)
         ELSE Run(bytes[1].byte, bytes[1].count - n) \o Tail(bytes)

\* The byte string of a sequence of byte values, and back.
RECURSIVE Pack(_)
Pack(seq) == IF seq = <<>> THEN <<>> ELSE Join(Run(seq[1], 1), Pack(Tail(seq)))

RECURSIVE Unpack(_)
Unpack(bytes) ==
    IF bytes = <<>> THEN <<>>
    ELSE <<bytes[1].byte>> \o Unpack(Run(bytes[1].byte, bytes[1].count - 1) \o Tail(bytes))

\* The client's side of the length header: n as 4 bytes, big-endian.
ToBeBytes(n) ==
    <<(n \div (256 * 256 * 256)) % 256, (n \div (256 * 256)) % 256,
      (n \div 256) % 256, n % 256>>

\* u32::from_be_bytes(length_buffer) as usize
FromBeBytes(b) ==
    b[1] * 256 * 256 * 256 + b[2] * 256 * 256 + b[3] * 256 + b[4]

\* The payloads clients send: every string of up to MaxShort bytes, and runs
\* of one byte value as long as the new buffer or up to MaxGrowth bytes longer.
ShortPayloads ==
    {Pack(seq) : seq \in UNION {[1..n -> ByteValues] : n \in 0..MaxShort}}

Payloads ==
    ShortPayloads \cup
    {Run(b, n) : b \in ByteValues, n \in BufferLen..(BufferLen + MaxGrowth)}

\* A frame: the length header, then the payload.
Frame(p) == Join(Pack(ToBeBytes(Size(p))), p)

\* What a client sends of a frame it does not complete: the first bytes of the
\* frame of a non-zero payload of MaxShort bytes, or nothing at all.
Parts ==
    LET whole == Frame(Run(10, MaxShort))
    IN {Take(whole, k) : k \in 0..(Size(whole) - 1)}

\* buffer.resize(message_length, 0), when message_length > buffer.len()
Resized(buf, n) == IF n > Size(buf) THEN Join(buf, Run(0, n - Size(buf))) ELSE buf

\* read_exact(&mut buf[..n]) taking the bytes `read`: they replace buf[..n].
Filled(buf, read) == Join(read, Drop(buf, Size(read)))

MessageBytes_WholeBuffer(buf, n) == buf

\* &buffer[..message_length]
MessageBytes(buf, n) == Take(buf, n)

\* handle_client is entered: the buffer is allocated.
Connected ==
    /\ reader = "idle"
    /\ reader' = "length"
    /\ buffer' = Run(0, BufferLen)
    /\ inbound' = <<>>
    /\ eof' = FALSE
    /\ message_length' = 0
    /\ payload' = None
    /\ sent' = <<>>
    /\ UNCHANGED served

\* The client sends the frame of payload `p`.
ClientSends(p) ==
    /\ reader # "idle"
    /\ ~eof
    /\ Len(sent) < MaxPending
    /\ inbound' = Join(inbound, Frame(p))
    /\ sent' = Append(sent, p)
    /\ UNCHANGED <<reader, eof, buffer, message_length, payload>>
    /\ UNCHANGED served

\* The client sends `part` of a further frame and closes its end.
ClientLeaves(part) ==
    /\ reader # "idle"
    /\ ~eof
    /\ inbound' = Join(inbound, part)
    /\ eof' = TRUE
    /\ UNCHANGED <<reader, buffer, message_length, payload, sent>>
    /\ UNCHANGED served

\* `break`: the loop ends and the buffer is dropped with the stream.
Break ==
    /\ reader' = "idle"
    /\ buffer' = <<>>
    /\ inbound' = <<>>
    /\ message_length' = 0
    /\ payload' = None
    /\ sent' = <<>>
    /\ UNCHANGED eof
    /\ UNCHANGED served

\* stream.read_exact(&mut length_buffer) succeeds; message_length is taken
\* from the 4 bytes.
ReadLengthBytes ==
    /\ reader = "length"
    /\ Size(inbound) >= 4
    /\ message_length' = FromBeBytes(Unpack(Take(inbound, 4)))
    /\ inbound' = Drop(inbound, 4)
    /\ reader' = "payload"
    /\ UNCHANGED <<eof, buffer, payload, sent>>
    /\ UNCHANGED served

\* stream.read_exact(&mut length_buffer) meets the end of the stream.
ReadLengthEof ==
    /\ reader = "length"
    /\ Size(inbound) < 4
    /\ eof
    /\ Break

\* The buffer is resized when the message is longer, read_exact fills
\* buffer[..message_length] and that slice is handed to Request::decode.
ReadPayloadBytes ==
    /\ reader = "payload"
    /\ Size(inbound) >= message_length
    /\ LET filled == Filled(Resized(buffer, message_length),
                            Take(inbound, message_length))
       IN /\ buffer' = filled
          /\ payload' = Some(MessageBytes(filled, message_length))
    /\ inbound' = Drop(inbound, message_length)
    /\ reader' = "decoded"
    /\ UNCHANGED <<eof, message_length, sent>>
    /\ UNCHANGED served

\* stream.read_exact(&mut buffer[..message_length]) meets the end of the
\* stream; the buffer was resized before.
ReadPayloadEof ==
    /\ reader = "payload"
    /\ Size(inbound) < message_length
    /\ eof
    /\ Break

\* The rest of the loop body (lines 34-105) is done with the frame.
Dispatched ==
    /\ reader = "decoded"
    /\ reader' = "length"
    /\ payload' = None
    /\ sent' = Tail(sent)
    /\ UNCHANGED <<inbound, eof, buffer, message_length>>
    /\ UNCHANGED served

FrameInit == Init /\ store = [p \in Paths |-> None]

FrameNext ==
    \/ Connected
    \/ \E p \in Payloads : ClientSends(p)
    \/ \E part \in Parts : ClientLeaves(part)
    \/ ReadLengthBytes
    \/ ReadLengthEof
    \/ ReadPayloadBytes
    \/ ReadPayloadEof
    \/ Dispatched

FrameSpec == FrameInit /\ [][FrameNext]_vars

(***************************************************************************)
(* Properties                                                              *)
(***************************************************************************)

IsLive(id) == id \in DOMAIN sessions /\ sessions[id] = "live"

\* The Response a Get of `key` is due when the store holds `held` under its Path.
GetAnswer(held) ==
    IF held # None THEN Success([kind |-> "Get", value |-> held[1]]) ELSE Failure(1)

\* The Response a Get is due after an Update that carried the value `v` for
\* its key.
AnswerAfter(v) == GetAnswer(IF v = <<>> THEN None ELSE Some(v))

\* A Get is being answered right after an answered Update that carried its key.
GetFollowsUpdate ==
    /\ pc = "write"
    /\ request.kind = "Get"
    /\ carried[request.key] # <<>>

\* C1, as stated: a Get that follows an answered Update on the same
\* connection answers, for every value the Update carried for its key, that
\* value (err_code 0) when it is not empty and not-found (err_code 1) when it
\* is empty.
C1_SessionContinuity ==
    GetFollowsUpdate =>
        \A i \in DOMAIN carried[request.key] :
            response = Some(AnswerAfter(carried[request.key][i]))

\* C1, amended: a Get that follows an answered Update on the same connection,
\* where no two items of the Update had the same key and one item carried
\* the Get's key, answers that item's value with err_code 0 when the value is
\* not empty and not-found (err_code 1) when it is empty.
C1_SessionContinuityDistinctKeys ==
    (GetFollowsUpdate /\ \A k \in Keys : Len(carried[k]) <= 1) =>
        response = Some(AnswerAfter(carried[request.key][1]))

C1_Witness ==
    /\ GetFollowsUpdate
    /\ \A k \in Keys : Len(carried[k]) <= 1
    /\ carried[request.key] = << <<50>> >>
    /\ response = Some(Success([kind |-> "Get", value |-> <<50>>]))

\* The batches handed to nomt.commit by the server's latest step.
CommittedBatches == {calls[i].batch : i \in {j \in DOMAIN calls : calls[j].op = "commit"}}

StrictlyAscending(batch) ==
    \A j \in 1..(Len(batch) - 1) : PathLess(batch[j].path, batch[j + 1].path)

Ascending(batch) ==
    \A j \in 1..(Len(batch) - 1) : ~PathLess(batch[j + 1].path, batch[j].path)

DistinctKeys(items) ==
    \A i, j \in DOMAIN items : i # j => items[i].key # items[j].key

\* C2, as stated: the batch handed to commit is sorted strictly ascending by
\* Path, for any items, repeated keys included.
C2_BatchStrictlyAscending ==
    \A batch \in CommittedBatches : StrictlyAscending(batch)

\* C2, amended: the batch handed to commit is sorted ascending by Path (no
\* Batch Item has a greater Path than the one behind it), and strictly
\* ascending when no two items of the Update have the same key.
C2_BatchAscending ==
    \A batch \in CommittedBatches :
        /\ Ascending(batch)
        /\ Len(batch) = Len(request.items)
        /\ DistinctKeys(request.items) => StrictlyAscending(batch)

C2_Witness ==
    /\ pc = "write"
    /\ request.kind = "Update"
    /\ Len(request.items) = 2
    /\ PathLess(Sha256(request.items[2].key), Sha256(request.items[1].key))
    /\ \E batch \in CommittedBatches :
           /\ batch[1].path = Sha256(request.items[2].key)
           /\ batch[2].path = Sha256(request.items[1].key)

\* C3: every read, warm_up and commit is issued against a Session that has
\* not been passed into a commit before; so no Session is committed twice
\* and none is used after its commit.
C3_SingleUseSessions ==
    \A i \in DOMAIN calls :
        calls[i].op \in {"read", "warm_up", "commit"} => calls[i].live

C3_Witness ==
    /\ sessions[1] = "committed"
    /\ calls # <<>>
    /\ calls[1].op = "read"
    /\ calls[1].session = 2
    /\ calls[1].live

\* C4: where a connection can be accepted main's `session` is a live Session,
\* and where a frame can be read, is dispatched or its response written,
\* handle_client's `next_session` is one: the Session an Update consumed
\* is replaced before the Update's response is written.
C4_SessionExists ==
    /\ pc = "accept" => IsLive(session)
    /\ pc \in {"read_length", "read_payload", "write"} => IsLive(next_session)

C4_Witness ==
    /\ pc = "write"
    /\ request.kind = "Update"
    /\ sessions[1] = "committed"
    /\ next_session = 2
    /\ IsLive(next_session)

\* C5: a Get reads derive(key) through the current Session and answers
\* err_code 0 with exactly the value the store holds, or err_code 1 without a
\* payload when the store holds none; either Response is then written and
\* the loop reads the next frame.
C5_GetOutcome ==
    /\ (calls # <<>> /\ calls[1].op = "read" /\ fault = "none") =>
           /\ pc = "write"
           /\ request.kind = "Get"
           /\ calls = <<Call("read", next_session, Some(Sha256(request.key)), <<>>)>>
           /\ response = Some(GetAnswer(store[Sha256(request.key)]))
    /\ (wrote # None /\ wrote[1].err_code # 0) => pc = "read_length"

C5_Witness ==
    /\ pc = "read_length"
    /\ peer = "open"
    /\ wrote = Some(Failure(1))

WellFormed(resp) ==
    \/ resp.err_code # 0 /\ resp.response = None
    \/ resp.err_code = 0 /\ resp.response # None

\* C6: every Response is either a failure (err_code not 0, no payload) or a
\* success (err_code 0, a payload), and a payload has the variant of the
\* request it answers; this is the Response that is written.
C6_ResponseWellFormed ==
    /\ pc = "write" =>
           /\ response # None
           /\ WellFormed(response[1])
           /\ response[1].response # None =>
                  response[1].response[1].kind = request.kind
    /\ wrote # None => WellFormed(wrote[1])

C6_Witness ==
    /\ wrote # None
    /\ wrote[1].err_code = 0
    /\ wrote[1].response[1].kind = "Prefetch"

\* C7: when the stream ends while the length or the payload is read, no
\* Response is written, no store operation is issued, the loop ends and
\* main holds the Session the connection held; the next connection is then
\* served with that Session.
C7_FramingError ==
    [][/\ (pc \in {"read_length", "read_payload"} /\ peer = "closed"
              /\ waiting' = waiting) =>
              /\ pc' = "accept"
              /\ wrote' = None
              /\ calls' = <<>>
              /\ store' = store
              /\ sessions' = sessions
              /\ session' = next_session
       /\ (pc = "accept" /\ pc' = "read_length") =>
              /\ next_session' = session
              /\ sessions' = sessions]_vars

C7_Witness ==
    /\ pc = "accept"
    /\ fault = "read_payload"
    /\ session = 2
    /\ IsLive(session)

\* C8, as stated: on every terminal condition (end of stream at the length
\* read or at the payload read, a payload that does not decode, a store error
\* in a Get or an Update) the loop ends and main holds the current Session.
C8_TerminalReturns ==
    [][(fault' # fault
           /\ fault' \in {"read_length", "read_payload", "decode", "read", "commit"}) =>
           /\ pc' = "accept"
           /\ session' = next_session]_vars

\* C8, amended: end of stream at the length read or at the payload read ends
\* the loop and main holds the current Session, with which it serves the next
\* connection; a payload that does not decode and a store error in a Get
\* or an Update panic: the process ends, it writes no Response and takes no
\* further step.
C8_TerminalReturnsOrPanics ==
    [][/\ (fault' # fault /\ fault' \in {"read_length", "read_payload"}) =>
              /\ pc' = "accept"
              /\ session' = next_session
       /\ fault' \in {"decode", "read", "commit"} =>
              /\ pc' = "panicked"
              /\ wrote' = None
       /\ pc # "panicked"]_vars

C8_Witness ==
    /\ pc = "panicked"
    /\ fault = "decode"
    /\ sessions[1] = "committed"

\* C9: the roots answered to Root requests since the last commit are one and
\* the same root; a Root request answers err_code 0 with the store's root,
\* issues no call against a Session and leaves the Sessions and the current
\* Session as they are.
C9_RootIdempotent ==
    [][/\ Cardinality(roots') <= 1
       /\ (pc = "read_payload" /\ request'.kind = "Root") =>
              /\ pc' = "write"
              /\ response' = Some(Success([kind |-> "Root", root |-> Root(store)]))
              /\ \A r \in roots : r = Root(store)
              /\ \A i \in DOMAIN calls' : calls'[i].session = Moved
              /\ next_session' = next_session
              /\ sessions' = sessions
              /\ store' = store]_vars

C9_Witness ==
    /\ pc = "write"
    /\ request.kind = "Root"
    /\ roots # {}
    /\ roots = {response[1].response[1].root}

\* C10: a Prefetch of any key answers err_code 0 with an empty Prefetch
\* payload and changes neither the store (so neither its root nor the value
\* of any Get) nor the Sessions nor the current Session.
C10_PrefetchAdvisory ==
    [][(pc = "read_payload" /\ request'.kind = "Prefetch") =>
           /\ pc' = "write"
           /\ response' = Some(Success([kind |-> "Prefetch"]))
           /\ store' = store
           /\ sessions' = sessions
           /\ next_session' = next_session
           /\ IsLive(next_session')]_vars

C10_Witness ==
    /\ pc = "write"
    /\ request.kind = "Prefetch"
    /\ store[Sha256(request.key)] = None
    /\ response = Some(Success([kind |-> "Prefetch"]))

\* A step the server takes on a connection that stays open: the client neither
\* closes its end nor does another client connect.
Served == peer' = "open" /\ waiting' = waiting

\* C11: a Close request is only acknowledged. It answers err_code 0 with an
\* empty Close payload, touches neither the store nor the Sessions nor the
\* current Session and calls no store operation; the loop goes on to write
\* the Response, and once it is written the same connection, still open,
\* is back at reading the length of the next frame, which is read as any
\* other frame.
C11_CloseAcknowledged ==
    [][/\ (pc = "read_payload" /\ request'.kind = "Close") =>
              /\ pc' = "write"
              /\ response' = Some(Success([kind |-> "Close"]))
              /\ calls' = <<>>
              /\ store' = store
              /\ sessions' = sessions
              /\ next_session' = next_session
              /\ IsLive(next_session')
              /\ streams' = streams
       /\ (pc = "write" /\ request.kind = "Close" /\ Served) =>
              /\ wrote' = Some(Success([kind |-> "Close"]))
              /\ pc' = "read_length"
              /\ streams' = streams
              /\ next_session' = next_session
              /\ store' = store
       /\ (pc = "read_length" /\ wrote = Some(Success([kind |-> "Close"]))
              /\ Served) =>
              pc' = "read_payload"]_vars

C11_Witness ==
    /\ pc = "read_length"
    /\ peer = "open"
    /\ wrote = Some(Success([kind |-> "Close"]))
    /\ streams = 1

\* C12: connections are served one at a time. At most one accepted stream
\* exists at any moment; a stream is accepted only by the bootstrap loop, when
\* the loop of the stream before it has ended, so a client that connects
\* while another connection is open (even a silent one) stays waiting and
\* none of its requests is dispatched. Within a connection a frame is
\* dispatched only when every frame read before it is answered, and the
\* Response written is the one of the frame read last, so requests are
\* dispatched and answered in their order of arrival.
C12_SerializedServing ==
    [][/\ streams' \in {0, 1}
       /\ streams' > streams =>
              /\ pc = "accept"
              /\ streams = 0
              /\ waiting
              /\ request' = NoRequest
       /\ (streams = 1 /\ streams' = 1 /\ waiting) => waiting'
       /\ (pc' \in {"read_length", "read_payload", "write"}) => streams' = 1
       /\ request' # request =>
              \/ pc = "read_payload" /\ unanswered = 0 /\ unanswered' = 1
              \/ request' = NoRequest /\ unanswered' = 0
       /\ (wrote' # None /\ wrote' # wrote) =>
              /\ pc = "write"
              /\ unanswered = 1
              /\ unanswered' = 0
              /\ wrote' = response]_vars

C12_Witness ==
    /\ pc = "read_length"
    /\ peer = "open"
    /\ wrote # None
    /\ waiting
    /\ streams = 1
    /\ unanswered = 0

\* The Batch Item an Update item stands for: the Path derived from its key,
\* with Write(None) for a value of length zero and Write(Some(value)) for any
\* other value.
Mapped(item) ==
    [path |-> Sha256(item.key),
     write |-> IF item.value = <<>> THEN None ELSE Some(item.value)]

\* Every item of the Update dispatched last has its Batch Item in the batch
\* handed to commit, and the batch holds nothing else.
BatchMapsItems ==
    request.kind = "Update" =>
        \A batch \in CommittedBatches :
            /\ \A i \in DOMAIN request.items :
                   \E j \in DOMAIN batch : batch[j] = Mapped(request.items[i])
            /\ \A j \in DOMAIN batch :
                   \E i \in DOMAIN request.items : batch[j] = Mapped(request.items[i])

\* C13, as stated: every item of an Update becomes the Batch Item with the
\* Path of its key and Write(None) exactly when its value is empty,
\* Write(Some(value)) otherwise; and a Get that follows an Update which
\* carried an empty value for its key answers not-found (err_code 1).
C13_ValueMapping ==
    /\ BatchMapsItems
    /\ (GetFollowsUpdate
            /\ \E i \in DOMAIN carried[request.key] : carried[request.key][i] = <<>>) =>
           response = Some(Failure(1))

\* C13, amended: the same mapping of items to Batch Items; and a Get that
\* follows an Update whose items have pairwise distinct keys, one of them
\* carrying an empty value for the Get's key, answers not-found (err_code 1).
C13_ValueMappingDistinctKeys ==
    /\ BatchMapsItems
    /\ (GetFollowsUpdate
            /\ (\A k \in Keys : Len(carried[k]) <= 1)
            /\ carried[request.key] = << <<>> >>) =>
           response = Some(Failure(1))

C13_Witness ==
    /\ GetFollowsUpdate
    /\ carried[request.key] = << <<>> >>
    /\ \E k \in Keys : carried[k] # <<>> /\ carried[k] # << <<>> >>
    /\ response = Some(Failure(1))

\* C14: a failed accept is only logged. The bootstrap loop stays at accepting,
\* no store operation is called, the store, the Sessions and the current
\* Session are as before and no stream is taken; the connection accepted next
\* is served with that same Session.
C14_AcceptErrorIgnored ==
    [][/\ fault' = "accept" =>
              /\ pc = "accept"
              /\ pc' = "accept"
              /\ calls' = <<>>
              /\ wrote' = None
              /\ session' = session
              /\ IsLive(session')
              /\ sessions' = sessions
              /\ store' = store
              /\ streams' = 0
       /\ (fault = "accept" /\ streams' > streams) =>
              /\ pc' = "read_length"
              /\ next_session' = session
              /\ IsLive(next_session')]_vars

C14_Witness ==
    /\ pc = "accept"
    /\ fault = "accept"
    /\ waiting
    /\ session = 2
    /\ sessions = <<"committed", "live">>

\* How often `e` occurs in `seq`.
Count(seq, e) == Cardinality({i \in DOMAIN seq : seq[i] = e})

\* C15: the batch handed to commit has one Batch Item per item of the Update:
\* it is as long as the item list and holds every item's Batch Item as often
\* as the items yield it (the same multiset, only reordered). Two items with
\* the same key are both in the batch, at two positions with equal Paths, so
\* the batch the store receives breaks its no-duplicate precondition.
C15_NoDeduplication ==
    request.kind = "Update" =>
        \A batch \in CommittedBatches :
            LET items == request.items
                mapped == [i \in DOMAIN items |-> Mapped(items[i])]
            IN /\ Len(batch) = Len(items)
               /\ \A i \in DOMAIN items : Count(batch, mapped[i]) = Count(mapped, mapped[i])
               /\ \A i, j \in DOMAIN items :
                      (i # j /\ items[i].key = items[j].key) =>
                          \E m, n \in DOMAIN batch :
                              /\ m # n
                              /\ batch[m].path = Sha256(items[i].key)
                              /\ batch[n].path = batch[m].path

C15_Witness ==
    /\ pc = "write"
    /\ request.kind = "Update"
    /\ \E batch \in CommittedBatches :
           /\ Len(batch) = 2
           /\ batch[1].path = batch[2].path
           /\ batch[1].write # batch[2].write

\* The current Session: `session` of main between connections, `next_session`
\* of the connection loop within one.
Current == IF pc = "accept" THEN session ELSE next_session

\* The Sessions a commit has consumed.
Committed(ss) == {id \in DOMAIN ss : ss[id] = "committed"}

\* The calls of `op` among `cs`.
CallsOf(cs, op) == {i \in DOMAIN cs : cs[i].op = op}

\* The step dispatches an Update.
UpdateDispatched == pc = "read_payload" /\ request'.kind = "Update"

\* C16, as stated: every dispatched Update, one with zero items included,
\* performs exactly one commit, on the current Session, and begins exactly one
\* new Session; every other step performs no commit and leaves the current
\* Session's identity unchanged; hence the Sessions begun are always one more
\* than the commits performed.
C16_SessionAccounting ==
    [][/\ UpdateDispatched =>
              /\ Cardinality(CallsOf(calls', "commit")) = 1
              /\ calls'[1] = Call("commit", next_session, None, ActualAccess(request'.items))
              /\ IsLive(next_session)
              /\ Cardinality(CallsOf(calls', "begin_session")) = 1
              /\ Len(sessions') = Len(sessions) + 1
       /\ ~UpdateDispatched =>
              /\ sessions' = sessions
              /\ Current' = Current
       /\ Len(sessions') = 1 + Cardinality(Committed(sessions'))]_vars

\* C16, amended: every dispatched Update, one with zero items included,
\* performs exactly one commit, on the current Session, which is consumed by
\* it. When the commit succeeds exactly one new Session is begun and becomes
\* the current one; when it fails the process panics and no Session is begun.
\* Every other step performs no commit and leaves the current Session's
\* identity unchanged. Hence, unless a commit has failed, the Sessions begun
\* are one more than the commits performed.
C16_SessionAccountingUnlessCommitFails ==
    [][/\ UpdateDispatched =>
              /\ Cardinality(CallsOf(calls', "commit")) = 1
              /\ calls'[1] = Call("commit", next_session, None, ActualAccess(request'.items))
              /\ IsLive(next_session)
              /\ Committed(sessions') = Committed(sessions) \cup {next_session}
              /\ IF fault' = "commit"
                 THEN /\ pc' = "panicked"
                      /\ CallsOf(calls', "begin_session") = {}
                      /\ Len(sessions') = Len(sessions)
                 ELSE /\ Cardinality(CallsOf(calls', "begin_session")) = 1
                      /\ Len(sessions') = Len(sessions) + 1
                      /\ next_session' = Len(sessions')
                      /\ IsLive(next_session)'
       /\ ~UpdateDispatched =>
              /\ sessions' = sessions
              /\ Current' = Current
       /\ fault' # "commit" =>
              Len(sessions') = 1 + Cardinality(Committed(sessions'))]_vars

C16_Witness ==
    /\ pc = "write"
    /\ request = UpdateRequest(<<>>)
    /\ sessions = <<"committed", "committed", "live">>
    /\ next_session = 3
    /\ Len(calls) = 2
    /\ calls[1].op = "commit" /\ calls[1].session = 2 /\ calls[1].batch = <<>>
    /\ calls[2].op = "begin_session" /\ calls[2].session = 3

\* The step reads a frame in full and its payload decodes.
FrameDecoded ==
    /\ pc = "read_payload"
    /\ request' # request
    /\ request'.kind \notin {"NoRequest", "Malformed"}

\* A step of the server at the write of a Response (neither the client closing
\* its end nor another client connecting).
AtWrite == pc = "write" /\ peer' = peer /\ waiting' = waiting

\* A Response is written only for a frame that was read in full and is the
\* only one unanswered, and it is the Response built for that frame; the
\* length of a frame is read only when every frame read before is answered.
\* So the Responses written never outnumber the frames read and the k-th
\* Response answers the k-th frame.
Paired ==
    /\ unanswered' \in {0, 1}
    /\ (wrote' # None /\ wrote' # wrote) =>
           /\ pc = "write"
           /\ unanswered = 1
           /\ unanswered' = 0
           /\ wrote' = response
           /\ response[1].response # None => response[1].response[1].kind = request.kind
    /\ (pc = "read_length" /\ pc' = "read_payload") =>
           /\ unanswered = 0
           /\ response = None

\* C17, as stated: every frame that is read in full and whose payload decodes
\* gets exactly one Response, written before the length of the next frame is
\* read; no Response is written without a frame read in full before it, the
\* Responses never outnumber the frames read and the k-th Response answers
\* the k-th frame.
C17_RequestResponsePairing ==
    [][/\ FrameDecoded =>
              /\ pc' = "write"
              /\ response' # None
       /\ AtWrite =>
              /\ wrote' = response
              /\ pc' = "read_length"
       /\ Paired]_vars

\* C17, amended: a frame that is read in full and whose payload decodes gets
\* at most one Response. It gets exactly one, written before the length of
\* the next frame is read, when its handling completes and the write
\* succeeds; when the envelope holds no request, a store call fails or the
\* client is gone at the write, the process panics and writes nothing. The
\* pairing of Responses with frames is as stated.
C17_RequestResponsePairingUnlessPanic ==
    [][/\ FrameDecoded =>
              /\ unanswered = 0
              /\ unanswered' = 1
              /\ wrote' = None
              /\ IF fault' = "none"
                 THEN pc' = "write" /\ response' # None
                 ELSE /\ pc' = "panicked"
                      /\ response' = None
                      /\ \/ fault' = "request" /\ request'.kind = "Unset"
                         \/ fault' = "read" /\ request'.kind = "Get"
                         \/ fault' = "commit" /\ request'.kind = "Update"
       /\ AtWrite =>
              IF peer = "open"
              THEN wrote' = response /\ pc' = "read_length"
              ELSE wrote' = None /\ pc' = "panicked" /\ fault' = "write"
       /\ Paired]_vars

C17_Witness ==
    /\ pc = "write"
    /\ peer = "open"
    /\ unanswered = 1
    /\ request.kind = "Get"
    /\ carried[request.key] = << <<49>>, <<49>> >>
    /\ response = Some(Success([kind |-> "Get", value |-> <<49>>]))

\* The connection's client has closed its end and the server takes its next
\* step on it.
AfterDisconnect ==
    /\ pc \in {"read_length", "read_payload", "write"}
    /\ peer = "closed"
    /\ waiting' = waiting

\* C18: a client disconnect at any step of a connection, the step between
\* the dispatch of a request and the write of its Response included, ends
\* only that connection: the loop returns and the server is back at accepting
\* with the current Session, live, and with the store and the Sessions as the
\* last request left them; for an Update the batch is committed and the
\* replacement Session begun although the Response is not delivered.
C18_DisconnectEndsConnectionOnly ==
    [][AfterDisconnect =>
           /\ pc' = "accept"
           /\ streams' = 0
           /\ session' = next_session
           /\ IsLive(session')
           /\ store' = store
           /\ sessions' = sessions
           /\ (request.kind = "Update" /\ pc = "write") =>
                  /\ Committed(sessions') # {}
                  /\ session' = Len(sessions')]_vars

\* C19: the payload handed to the decoder for a frame is exactly the
\* message_length bytes that follow the frame's 4-byte big-endian length
\* header, whatever was read before: bytes an earlier, longer frame left in
\* the reused buffer are no part of it, and a frame longer than the buffer is
\* read in full, the buffer growing to hold it.
C19_FrameIsolation ==
    reader = "decoded" =>
        /\ sent # <<>>
        /\ payload = Some(sent[1])
        /\ Size(sent[1]) = message_length
        /\ Size(buffer) >= message_length
        /\ Size(buffer) >= BufferLen

C19_Witness ==
    /\ reader = "decoded"
    /\ Size(buffer) > BufferLen
    /\ message_length = 1
    /\ payload = Some(Run(0, 1))
    /\ \E i \in DOMAIN buffer : buffer[i].byte # 0

====
